---------------------------- MODULE Spec2Model ----------------------------
(***************************************************************************)
(* Species search, smart ranking and taxonomy resolution of Observatum:    *)
(*   database/handlers/uksi_search.py   UKSISearch  (fuzzy search)         *)
(*   database/handlers/uksi_ranker.py   UKSIRanker  (history ranking)      *)
(*   database/handlers/uksi_handler.py  UKSIHandler (coordination, walk)   *)
(*   database/uksi_handler.py           UKSIHandler before the refactoring *)
(*                                                                         *)
(* Text values are sequences of one-character strings, so that LIKE,       *)
(* split(), lower(), LENGTH() and the string orderings are computed        *)
(* character by character as SQLite and Python compute them.               *)
(***************************************************************************)
EXTENDS Integers, Sequences, FiniteSets, TLC

VARIABLES
    taxa,               \* table taxa: tvk -> [scientific_name, rank]
    common_names,       \* table common_names: sequence of rows [common_name, tvk]
    synonyms,           \* table synonyms: sequence of rows [synonym, tvk]
    hierarchy,          \* table hierarchy: tvk -> parent_tvk
    records,            \* table records of the observations database
    op,                 \* the operation whose outcome the state holds
    search_term,        \* argument search_term of the last search
    limit,              \* argument limit of the last search
    obs_db_conn,        \* argument obs_db_conn: "None", or the state of the connection
    results,            \* the list returned (or being ranked)
    ranked_input,       \* the list handed to rank_results
    recent_tvks,        \* set read by _get_recent_species
    all_recorded_tvks,  \* set read by _get_all_recorded_species
    queries,            \* statements executed by search and rank_results in the call
    raised,             \* TRUE when the call ended with an exception
    tvk,                \* argument tvk of get_species_by_tvk
    current_tvk,        \* _build_taxonomy: key examined next
    visited,            \* _build_taxonomy: keys examined so far
    depth,              \* _build_taxonomy: hops made
    taxonomy,           \* _build_taxonomy: level -> scientific name
    species,            \* value returned by get_species_by_tvk
    path                \* value returned by get_taxonomy_path

vars == <<taxa, common_names, synonyms, hierarchy, records, op, search_term,
          limit, obs_db_conn, results, ranked_input, recent_tvks,
          all_recorded_tvks, queries, raised, tvk, current_tvk, visited, depth, taxonomy,
          species, path>>

dataset_vars == <<taxa, common_names, synonyms, hierarchy, records>>
search_vars == <<search_term, limit, obs_db_conn, results, ranked_input,
                 recent_tvks, all_recorded_tvks, queries>>
walk_vars == <<tvk, current_tvk, visited, depth, taxonomy, species, path>>

-----------------------------------------------------------------------------
(* Text.                                                                   *)

\* SQL NULL / Python None where a text value is expected.
Null == <<"NULL">>

\* SQL NULL / Python None where a taxon key is expected.
NoKey == 0

\* get_species_by_tvk returning None; otherwise it returns <<dictionary>>.
NoSpecies == <<>>

\* taxonomy = {} at the start of _build_taxonomy.
NoTaxonomy == [parent_tvk |-> NoKey, levels |-> <<>>]

\* obs_db_conn=None; otherwise a connection on which the queries named in
\* fails raise.
NoConn == [conn |-> FALSE, fails |-> {}]

Min(a, b) == IF a < b THEN a ELSE b

Upper == <<"A","B","C","D","E","F","G","H","I","J","K","L","M",
           "N","O","P","Q","R","S","T","U","V","W","X","Y","Z">>

Lower == <<"a","b","c","d","e","f","g","h","i","j","k","l","m",
           "n","o","p","q","r","s","t","u","v","w","x","y","z">>

\* The characters of the model in code-point order (32 space, 37 %, 45 -,
\* 65..90 upper case, 95 _, 97..122 lower case).
CodePoints == <<" ", "%", "-">> \o Upper \o <<"_">> \o Lower

Range(f) == {f[i] : i \in DOMAIN f}

\* Position of each character in the code-point order.
OrdTable == [c \in Range(CodePoints) |-> CHOOSE i \in 1..Len(CodePoints) : CodePoints[i] = c]

\* The ASCII lower-case form of each character.
LowerTable ==
    [c \in Range(CodePoints) |->
        IF \E i \in 1..Len(Upper) : Upper[i] = c
        THEN Lower[CHOOSE i \in 1..Len(Upper) : Upper[i] = c]
        ELSE c]

\* Position of a character in the code-point order: the order of Python's
\* str comparison and of SQLite's BINARY collation.
Ord(c) == OrdTable[c]

\* ASCII case folding of one character (SQLite LIKE, str.lower()).
LowerChar(c) == LowerTable[c]

\* str.lower()
LowerStr(s) == [i \in 1..Len(s) |-> LowerChar(s[i])]

\* a < b for two texts: code point by code point, a proper prefix first.
RECURSIVE StrLess(_, _)
StrLess(a, b) ==
    IF b = <<>> THEN FALSE
    ELSE IF a = <<>> THEN TRUE
    ELSE IF Head(a) = Head(b) THEN StrLess(Tail(a), Tail(b))
    ELSE Ord(Head(a)) < Ord(Head(b))

\* SQLite's  text LIKE pattern : % is any run of characters, _ is any one
\* character, every other character matches itself ignoring ASCII case.
RECURSIVE Like(_, _)
Like(text, pattern) ==
    IF pattern = <<>> THEN text = <<>>
    ELSE IF Head(pattern) = "%"
         THEN Like(text, Tail(pattern)) \/ (text # <<>> /\ Like(Tail(text), pattern))
    ELSE IF text = <<>> THEN FALSE
    ELSE IF Head(pattern) = "_" THEN Like(Tail(text), Tail(pattern))
    ELSE LowerChar(Head(pattern)) = LowerChar(Head(text))
         /\ Like(Tail(text), Tail(pattern))

\* LIKE on a column that may be NULL: NULL LIKE p is NULL, which no WHERE,
\* CASE WHEN or OR treats as true.
SqlLike(value, pattern) == value # Null /\ Like(value, pattern)

\* str.split() with no argument: the maximal runs of non-blank characters.
RECURSIVE SplitFrom(_, _)
SplitFrom(s, word) ==
    IF s = <<>> THEN (IF word = <<>> THEN <<>> ELSE <<word>>)
    ELSE IF Head(s) = " "
         THEN (IF word = <<>> THEN <<>> ELSE <<word>>) \o SplitFrom(Tail(s), <<>>)
    ELSE SplitFrom(Tail(s), Append(word, Head(s)))

Split(s) == SplitFrom(s, <<>>)

\* sep.join(parts)
RECURSIVE Join(_, _)
Join(parts, sep) ==
    IF parts = <<>> THEN <<>>
    ELSE IF Len(parts) = 1 THEN parts[1]
    ELSE parts[1] \o sep \o Join(Tail(parts), sep)

-----------------------------------------------------------------------------
(* UKSISearch: the fuzzy query.                                             *)

\* _build_fuzzy_query: the words of the term, one "%word%" pattern per word.
WordPatterns(term) ==
    LET search_words == Split(term)
    IN  [i \in 1..Len(search_words) |-> <<"%">> \o search_words[i] \o <<"%">>]

\* _build_fuzzy_query: the pattern of the names that get priority; built from
\* the term as given (not stripped, not split).
StartPattern(term) == term \o <<"%">>

\* With no word the WHERE clause is empty text, the statement does not parse
\* and cursor.execute raises sqlite3.OperationalError.
QueryRaises(term) == WordPatterns(term) = <<>>

\* FROM taxa t LEFT JOIN common_names cn ON t.tvk = cn.tvk : one row per
\* common name of a taxon, and one row with a NULL common name for a taxon
\* that has none.
JoinedRows ==
    {[tvk |-> common_names[i].tvk, common_name |-> common_names[i].common_name] :
        i \in {j \in DOMAIN common_names : common_names[j].tvk \in DOMAIN taxa}}
    \cup
    {[tvk |-> k, common_name |-> Null] :
        k \in {t \in DOMAIN taxa : \A j \in DOMAIN common_names : common_names[j].tvk # t}}

\* WHERE (t.scientific_name LIKE ? OR cn.common_name LIKE ?) AND ... : every
\* pattern against the scientific name or the common name of this one row.
WhereSql(row, patterns) ==
    \A i \in DOMAIN patterns :
        \/ SqlLike(taxa[row.tvk].scientific_name, patterns[i])
        \/ SqlLike(row.common_name, patterns[i])

\* The taxa that have a joined row passing the WHERE clause.
MatchedTvks(term) ==
    LET patterns == WordPatterns(term)
    IN  {row.tvk : row \in {r \in JoinedRows : WhereSql(r, patterns)}}

\* Mutant of DedupTier: the rank is not looked at.
DedupTierNoRank(k) ==
    IF SqlLike(taxa[k].scientific_name, <<"%"," ","x"," ","%">>) THEN 3 ELSE 1

\* CASE WHEN of the window's ORDER BY: hybrids 3, infraspecific ranks 2, else 1.
DedupTier(k) ==
    IF SqlLike(taxa[k].scientific_name, <<"%"," ","x"," ","%">>) THEN 3
    ELSE IF \/ SqlLike(taxa[k].rank, <<"%","S","u","b","s","p","e","c","i","e","s","%">>)
            \/ SqlLike(taxa[k].rank, <<"%","V","a","r","i","e","t","y","%">>)
            \/ SqlLike(taxa[k].rank, <<"%","F","o","r","m","%">>)
         THEN 2
    ELSE 1

\* ORDER BY CASE ..., LENGTH(t.scientific_name), t.tvk : the sort key of a
\* row inside its partition.
WindowKey(k) == <<DedupTier(k), Len(taxa[k].scientific_name), k>>

\* Ascending order of window keys: a comes at or before b.
WindowOrder(a, b) ==
    \/ a[1] < b[1]
    \/ a[1] = b[1] /\ a[2] < b[2]
    \/ a[1] = b[1] /\ a[2] = b[2] /\ a[3] <= b[3]

\* Mutant of RankedResults: the window partitioned by t.tvk, which keeps one
\* row for every matched taxon.
RankedResultsPerTaxon(matched) == matched

\* ROW_NUMBER() OVER (PARTITION BY t.scientific_name ORDER BY ...) ... WHERE rn = 1:
\* of the matched taxa of one scientific name, the first in the window's order.
RankedResults(matched) ==
    LET key == [k \in matched |-> WindowKey(k)]
    IN  {k \in matched :
            \A k2 \in matched :
                taxa[k2].scientific_name = taxa[k].scientific_name
                    => WindowOrder(key[k], key[k2])}

\* CASE WHEN scientific_name LIKE ? THEN 1 ELSE 2 END with the start pattern.
StartTier(k, term) ==
    IF SqlLike(taxa[k].scientific_name, StartPattern(term)) THEN 1 ELSE 2

\* ORDER BY CASE ..., LENGTH(scientific_name), scientific_name : the sort key
\* of a result row.
OuterKey(k, term) ==
    <<StartTier(k, term), Len(taxa[k].scientific_name), taxa[k].scientific_name>>

\* Ascending order of outer keys: a comes strictly before b.
OuterBefore(a, b) ==
    \/ a[1] < b[1]
    \/ a[1] = b[1] /\ a[2] < b[2]
    \/ a[1] = b[1] /\ a[2] = b[2] /\ StrLess(a[3], b[3])

\* The rows in ascending order of their keys. Rows with equal keys (SQLite
\* leaves their order open) are put in key order of the taxa.
RECURSIVE SortRows(_, _)
SortRows(keys, key) ==
    IF keys = {} THEN <<>>
    ELSE LET first == CHOOSE k \in keys :
                          \A k2 \in keys \ {k} :
                              \/ OuterBefore(key[k], key[k2])
                              \/ key[k] = key[k2] /\ k < k2
         IN  <<first>> \o SortRows(keys \ {first}, key)

\* The outer SELECT ... ORDER BY over the rows with rn = 1.
OrderBy(keys, term) == SortRows(keys, [k \in keys |-> OuterKey(k, term)])

\* LIMIT ? : a negative limit is no limit.
SqlLimit(rows, n) == IF n < 0 THEN rows ELSE SubSeq(rows, 1, Min(n, Len(rows)))

\* GROUP_CONCAT(common_name, ', ') ... GROUP BY tvk : the names of one taxon
\* in table order, joined; no row (None) for a taxon without names.
GroupConcat(k) ==
    LET rows == SelectSeq(common_names, LAMBDA r : r.tvk = k)
    IN  IF rows = <<>> THEN Null
        ELSE Join([i \in 1..Len(rows) |-> rows[i].common_name], <<",", " ">>)

\* Mutant of FetchCommonNamesBulk: the names are looked up by scientific
\* name, so a row also gets the names of the taxa collapsed into it.
FetchCommonNamesByName(rows) ==
    [i \in 1..Len(rows) |->
        LET named == SelectSeq(common_names,
                         LAMBDA r : /\ r.tvk \in DOMAIN taxa
                                    /\ taxa[r.tvk].scientific_name = rows[i].scientific_name)
        IN  [rows[i] EXCEPT !.common_names =
                IF named = <<>> THEN Null
                ELSE Join([j \in 1..Len(named) |-> named[j].common_name], <<",", " ">>)]]

\* _fetch_common_names_bulk: one lookup keyed by the keys of the rows fetched.
FetchCommonNamesBulk(rows) ==
    [i \in 1..Len(rows) |-> [rows[i] EXCEPT !.common_names = GroupConcat(rows[i].tvk)]]

\* Mutant of Search: the matched rows are cut to the limit (in key order)
\* before the window and the ordering are applied.
SearchLimitFirst(term, lim) ==
    LET matched == MatchedTvks(term)
        cut == {k \in matched : lim < 0 \/ Cardinality({k2 \in matched : k2 < k}) < lim}
        fetched == OrderBy(RankedResults(cut), term)
        rows == [i \in 1..Len(fetched) |->
                    [tvk |-> fetched[i],
                     scientific_name |-> taxa[fetched[i]].scientific_name,
                     common_names |-> Null,
                     rank |-> taxa[fetched[i]].rank]]
    IN  FetchCommonNamesBulk(rows)

\* UKSISearch.search
Search(term, lim) ==
    LET fetched == SqlLimit(OrderBy(RankedResults(MatchedTvks(term)), term), lim)
        rows == [i \in 1..Len(fetched) |->
                    [tvk |-> fetched[i],
                     scientific_name |-> taxa[fetched[i]].scientific_name,
                     common_names |-> Null,
                     rank |-> taxa[fetched[i]].rank]]
    IN  FetchCommonNamesBulk(rows)

\* The statements UKSISearch.search executes: the fuzzy query, then, if rows
\* came back ("if not tvks: return"), one common-name query with the keys of
\* the rows as parameters.
SearchQueries(term, found) ==
    <<[kind |-> "fuzzy", keys |-> <<>>]>> \o
    (IF QueryRaises(term) \/ found = <<>> THEN <<>>
     ELSE <<[kind |-> "common_names", keys |-> [i \in DOMAIN found |-> found[i].tvk]]>>)

-----------------------------------------------------------------------------
(* UKSIRanker.                                                              *)

\* date >= date('now', '-30 days')
RecentWindowDays == 30

\* Mutant of LookupRaises: no except clause, the failure of the query
\* propagates.
LookupRaisesUncaught(failed) == failed

\* try: ... except Exception as e: logger.warning(...); return set() : a failed
\* lookup does not raise to rank_results.
LookupRaises(failed) == FALSE

\* rank_results raises when one of its two lookups does.
RankRaises(conn) ==
    LookupRaises("recent" \in conn.fails) \/ LookupRaises("all" \in conn.fails)

\* _get_recent_species: the set read, or the empty set when the query fails.
GetRecentSpecies(fails) ==
    IF fails THEN {}
    ELSE {r.taxon_id : r \in {x \in records :
                                 x.taxon_id # NoKey /\ x.age <= RecentWindowDays}}

\* _get_all_recorded_species: the set read, or the empty set when the query fails.
GetAllRecordedSpecies(fails) ==
    IF fails THEN {}
    ELSE {r.taxon_id : r \in {x \in records : x.taxon_id # NoKey}}

\* Mutant of Priority: the two membership tests in the other order.
PriorityAllFirst(entry, recent, all_recorded) ==
    IF entry.tvk \in all_recorded THEN 2
    ELSE IF entry.tvk \in recent THEN 1
    ELSE 3

\* The statements rank_results executes: _get_recent_species first, then
\* _get_all_recorded_species.
RankQueries ==
    <<[kind |-> "recent", keys |-> <<>>], [kind |-> "all_recorded", keys |-> <<>>]>>

\* Mutant of Priority: an entry is priority 1 only when both sets hold it.
PriorityRecentNeedsAll(entry, recent, all_recorded) ==
    IF entry.tvk \in recent /\ entry.tvk \in all_recorded THEN 1
    ELSE IF entry.tvk \in all_recorded THEN 2
    ELSE 3

\* _assign_priorities, for one entry.
Priority(entry, recent, all_recorded) ==
    IF entry.tvk \in recent THEN 1
    ELSE IF entry.tvk \in all_recorded THEN 2
    ELSE 3

\* Mutant of KeyLess: the key is the priority alone.
KeyLessPriorityOnly(a, b, recent, all_recorded) ==
    Priority(a, recent, all_recorded) < Priority(b, recent, all_recorded)

\* key=lambda x: (x['_priority'], x['scientific_name']) : a's key < b's key.
KeyLess(a, b, recent, all_recorded) ==
    \/ Priority(a, recent, all_recorded) < Priority(b, recent, all_recorded)
    \/ /\ Priority(a, recent, all_recorded) = Priority(b, recent, all_recorded)
       /\ StrLess(a.scientific_name, b.scientific_name)

\* list.sort is stable: an entry goes after the entries whose key is not greater.
RECURSIVE InsertSorted(_, _, _, _)
InsertSorted(sorted, e, recent, all_recorded) ==
    IF sorted = <<>> THEN <<e>>
    ELSE IF KeyLess(e, Head(sorted), recent, all_recorded)
         THEN <<e>> \o sorted
    ELSE <<Head(sorted)>> \o InsertSorted(Tail(sorted), e, recent, all_recorded)

RECURSIVE StableSort(_, _, _, _)
StableSort(list, done, recent, all_recorded) ==
    IF list = <<>> THEN done
    ELSE StableSort(Tail(list), InsertSorted(done, Head(list), recent, all_recorded),
                    recent, all_recorded)

\* The entries of a list whose tvk no earlier entry has.
RECURSIVE FirstPerTvk(_, _)
FirstPerTvk(list, seen) ==
    IF list = <<>> THEN <<>>
    ELSE IF Head(list).tvk \in seen THEN FirstPerTvk(Tail(list), seen)
    ELSE <<Head(list)>> \o FirstPerTvk(Tail(list), seen \cup {Head(list).tvk})

\* Mutant of RankResults: the entries collected per tvk before the sort.
RankResultsPerTvk(list, recent, all_recorded) ==
    StableSort(FirstPerTvk(list, {}), <<>>, recent, all_recorded)

\* Mutant of RankResults: the list is returned in the order it came in.
RankResultsUnranked(list, recent, all_recorded) == list

\* UKSIRanker.rank_results, given the two sets it read.
RankResults(list, recent, all_recorded) ==
    StableSort(list, <<>>, recent, all_recorded)

-----------------------------------------------------------------------------
(* UKSIHandler.search_species.                                              *)

\* Mutant of Slice: no truncation.
SliceNone(list, n) == list

\* results[:limit]
Slice(list, n) ==
    IF n >= 0 THEN SubSeq(list, 1, Min(n, Len(list)))
    ELSE SubSeq(list, 1, IF Len(list) + n > 0 THEN Len(list) + n ELSE 0)

\* Extra results fetched for the ranking to choose from: limit * 3.
Oversample == 3

-----------------------------------------------------------------------------
(* UKSIHandler.get_species_by_tvk and _build_taxonomy.                      *)

\* max_depth = 20  # Safety limit
max_depth == 20

\* ['kingdom', 'phylum', 'class', 'order', 'family', 'genus']
TaxonomyLevels ==
    <<<<"k","i","n","g","d","o","m">>, <<"p","h","y","l","u","m">>,
      <<"c","l","a","s","s">>, <<"o","r","d","e","r">>,
      <<"f","a","m","i","l","y">>, <<"g","e","n","u","s">>>>

\* SELECT ... FROM taxa t ... WHERE t.tvk = ? ; fetchone() : is there a row.
TaxonExists(k) == k \in DOMAIN taxa

\* Mutant of ParentOf: a taxon without a parent edge is given the taxon with
\* the next key as its parent.
ParentOfNextKey(k) ==
    IF k \in DOMAIN hierarchy /\ hierarchy[k] # NoKey THEN hierarchy[k] ELSE k + 1

\* h.parent_tvk of  taxa t LEFT JOIN hierarchy h ON t.tvk = h.tvk : NULL when
\* the taxon has no hierarchy row.
ParentOf(k) == IF k \in DOMAIN hierarchy THEN hierarchy[k] ELSE NoKey

\* rank = row['rank'].lower() if row['rank'] else ''
RowRank(k) == IF taxa[k].rank = Null THEN <<>> ELSE LowerStr(taxa[k].rank)

\* Mutant of StoreLevel: a level already stored is overwritten.
StoreLevelOverwrite(levels, k) ==
    IF RowRank(k) \in Range(TaxonomyLevels)
    THEN [l \in DOMAIN levels \cup {RowRank(k)} |->
             IF l = RowRank(k) THEN taxa[k].scientific_name ELSE levels[l]]
    ELSE levels

\* Mutant of StoreLevel: the starting taxon is passed over, levels come from
\* its ancestors only.
StoreLevelAncestorsOnly(levels, k) ==
    IF k # tvk /\ RowRank(k) \in Range(TaxonomyLevels) /\ RowRank(k) \notin DOMAIN levels
    THEN (RowRank(k) :> taxa[k].scientific_name) @@ levels
    ELSE levels

\* if rank in [...]: if rank not in taxonomy: taxonomy[rank] = scientific_name
StoreLevel(levels, k) ==
    IF RowRank(k) \in Range(TaxonomyLevels) /\ RowRank(k) \notin DOMAIN levels
    THEN (RowRank(k) :> taxa[k].scientific_name) @@ levels
    ELSE levels

\* Mutant of LoopCondition: no depth limit.
LoopConditionNoCap == current_tvk # NoKey

\* while current_tvk and depth < max_depth
LoopCondition == current_tvk # NoKey /\ depth < max_depth

\* Mutant of AlreadyVisited: no cycle guard.
AlreadyVisitedNever == FALSE

\* if current_tvk in visited
AlreadyVisited == current_tvk \in visited

\* Mutant of StoreParent: the parent key is stored at every hop.
StoreParentEveryHop(parent) == parent

\* if depth == 0 and parent_tvk: taxonomy['parent_tvk'] = parent_tvk
StoreParent(parent) == IF depth = 0 THEN parent ELSE taxonomy.parent_tvk

\* taxonomy.get(level)
GetLevel(level) ==
    IF level \in DOMAIN taxonomy.levels THEN taxonomy.levels[level] ELSE Null

\* The dictionary get_species_by_tvk returns for an existing taxon.
SpeciesDict(k) ==
    [tvk |-> k,
     scientific_name |-> taxa[k].scientific_name,
     common_names |-> GroupConcat(k),
     rank |-> taxa[k].rank,
     parent_tvk |-> taxonomy.parent_tvk,
     kingdom |-> GetLevel(TaxonomyLevels[1]),
     phylum |-> GetLevel(TaxonomyLevels[2]),
     class |-> GetLevel(TaxonomyLevels[3]),
     order |-> GetLevel(TaxonomyLevels[4]),
     family |-> GetLevel(TaxonomyLevels[5]),
     genus |-> GetLevel(TaxonomyLevels[6])]

\* Mutant of ReturnedSpecies: None when the walk stopped at a key without a
\* row in taxa.
ReturnedSpeciesOrNone ==
    IF \E k \in visited : ~TaxonExists(k) THEN NoSpecies ELSE <<SpeciesDict(tvk)>>

\* return {...} of get_species_by_tvk, once the taxonomy is built.
ReturnedSpecies == <<SpeciesDict(tvk)>>

\* No value returned by get_taxonomy_path (it was not called).
NoPath == Null

\* value.strip() is empty: the text holds white space only.
IsBlank(text) == \A i \in DOMAIN text : text[i] = " "

\* for rank in ['kingdom', ..., 'genus']: value = species.get(rank) : the
\* values in that order.
LevelValues(dict) ==
    <<dict.kingdom, dict.phylum, dict.class, dict.order, dict.family, dict.genus>>

\* Mutant of PathParts: '-' stands for a level without a value.
PathPartsWithPlaceholder(dict) ==
    [i \in DOMAIN LevelValues(dict) |->
        IF LevelValues(dict)[i] = Null THEN <<"-">> ELSE LevelValues(dict)[i]]

\* if value and value.strip(): path_parts.append(value)
PathParts(dict) ==
    SelectSeq(LevelValues(dict), LAMBDA value : value # Null /\ ~IsBlank(value))

\* get_taxonomy_path, given what get_species_by_tvk returned.
TaxonomyPath(found) ==
    IF found = NoSpecies THEN <<>>
    ELSE Join(PathParts(found[1]), <<" ", ">", " ">>)

-----------------------------------------------------------------------------
(* The reference datasets, observation histories and arguments explored.    *)

\* Taxa 1..NumTaxa of TaxonUniverse may be present in the taxa table.
NumTaxa == 6

\* Rows 1..NumCommonNames of CommonNameUniverse may be present in common_names.
NumCommonNames == 3

\* Rows 1..NumRecords of RecordUniverse may be present in records.
NumRecords == 2

\* Rows 1..NumSynonyms of SynonymUniverse may be present in synonyms.
NumSynonyms == 1

\* search_species is called with limit 0..MaxLimit.
MaxLimit == 2

Species == <<"S","p","e","c","i","e","s">>
Subspecies == <<"S","u","b","s","p","e","c","i","e","s">>
Genus == <<"G","e","n","u","s">>
Family == <<"F","a","m","i","l","y">>

\* Names shared by three keys (ranks Species, Subspecies, Species), a name
\* that contains another, a hybrid, a name differing in case, a NULL rank.
TaxonUniverse ==
    <<[scientific_name |-> <<"a","b">>,             rank |-> Species],
      [scientific_name |-> <<"a","b">>,             rank |-> Subspecies],
      [scientific_name |-> <<"a","b">>,             rank |-> Species],
      [scientific_name |-> <<"c","a","b">>,         rank |-> Species],
      [scientific_name |-> <<"a"," ","x"," ","b">>, rank |-> Species],
      [scientific_name |-> <<"B","a">>,             rank |-> Null],
      [scientific_name |-> <<"a","b","c">>,         rank |-> Genus],
      [scientific_name |-> <<"A","b">>,             rank |-> Family]>>

CommonNameUniverse ==
    <<[common_name |-> <<"c">>, tvk |-> 2],
      [common_name |-> <<"d">>, tvk |-> 2],
      [common_name |-> <<"d">>, tvk |-> 4],
      [common_name |-> <<"c">>, tvk |-> 1],
      [common_name |-> <<"c","d">>, tvk |-> 6],
      [common_name |-> <<"d">>, tvk |-> 3]>>

\* Alternate scientific names; no scientific or common name of the taxon holds
\* their letters.
SynonymUniverse ==
    <<[synonym |-> <<"c","d">>, tvk |-> 1],
      [synonym |-> <<"d"," ","c">>, tvk |-> 5]>>

\* age: days between the record's date and today.
RecordUniverse ==
    <<[taxon_id |-> 4, age |-> 10],
      [taxon_id |-> 6, age |-> 400],
      [taxon_id |-> 2, age |-> 30],
      [taxon_id |-> NoKey, age |-> 5],
      [taxon_id |-> 5, age |-> 31]>>

\* The subsequence of a universe that keeps the rows of the index set.
Pick(universe, idx) == SelectSeq(universe, LAMBDA r : \E i \in idx : universe[i] = r)

TaxaTables ==
    {[k \in keys |-> TaxonUniverse[k]] : keys \in SUBSET (1..NumTaxa)}

CommonNameTables ==
    {Pick(CommonNameUniverse, idx) : idx \in SUBSET (1..NumCommonNames)}

\* A synonym row may be present when its taxon is (FOREIGN KEY (tvk)).
SynonymTables(keys) ==
    {Pick(SynonymUniverse, idx) :
        idx \in SUBSET {i \in 1..NumSynonyms : SynonymUniverse[i].tvk \in keys}}

RecordTables ==
    {{RecordUniverse[i] : i \in idx} : idx \in SUBSET (1..NumRecords)}

Terms ==
    {<<>>, <<"a">>, <<"a","B">>, <<"a"," ","b">>, <<"c"," ","d">>,
     <<"a","_">>, <<" "," ">>, <<"a"," ">>}

Limits == 0..MaxLimit

SearchLimits == Limits \cup {Oversample * MaxLimit}



-----------------------------------------------------------------------------
(* Search and search_species on a fixed reference dataset.                  *)

Init ==
    /\ taxa \in TaxaTables
    /\ common_names \in CommonNameTables
    /\ synonyms \in SynonymTables(DOMAIN taxa)
    /\ hierarchy = <<>>
    /\ records = {}
    /\ op = "idle"
    /\ search_term = <<>>
    /\ limit = 0
    /\ obs_db_conn = NoConn
    /\ results = <<>>
    /\ ranked_input = <<>>
    /\ recent_tvks = {}
    /\ queries = <<>>
    /\ all_recorded_tvks = {}
    /\ raised = FALSE
    /\ tvk = NoKey
    /\ current_tvk = NoKey
    /\ visited = {}
    /\ depth = 0
    /\ taxonomy = NoTaxonomy
    /\ species = NoSpecies
    /\ path = NoPath

\* UKSISearch.search(term, lim), called directly.
DoSearch(term, lim) ==
    /\ op = "idle"
    /\ op' = "search"
    /\ search_term' = term
    /\ limit' = lim
    /\ raised' = QueryRaises(term)
    /\ results' = IF QueryRaises(term) THEN <<>> ELSE Search(term, lim)
    /\ queries' = SearchQueries(term, results')
    /\ UNCHANGED <<taxa, common_names, synonyms, hierarchy, records, obs_db_conn,
                   ranked_input, recent_tvks, all_recorded_tvks, walk_vars>>

SearchCall == \E term \in Terms, lim \in SearchLimits : DoSearch(term, lim)

\* Mutant of ShortTerm: only the empty term is refused.
ShortTermEmptyOnly(term) == term = <<>>

\* if not search_term or len(search_term) < 2: return []
ShortTerm(term) == term = <<>> \/ Len(term) < 2

\* Mutant of Searched: the searcher asked for limit results only.
SearchedNoOversample(term, lim) ==
    IF ShortTerm(term) \/ QueryRaises(term) THEN <<>>
    ELSE Search(term, lim)

\* self.searcher.search(search_term, limit * 3) inside search_species: not
\* called for a short term; the exception of a failing query propagates.
Searched(term, lim) ==
    IF ShortTerm(term) \/ QueryRaises(term) THEN <<>>
    ELSE Search(term, lim * Oversample)

\* UKSIHandler.search_species(term, lim, conn) with the observation history
\* holding recs at the time of the call; found is what the searcher returned.
DoSearchSpecies(term, lim, conn, recs, found) ==
    LET short == ShortTerm(term)
        fails == ~short /\ QueryRaises(term)
        ranking == conn.conn /\ ~short /\ ~fails
    IN  /\ op = "idle"
        /\ op' = "search_species"
        /\ search_term' = term
        /\ limit' = lim
        /\ obs_db_conn' = conn
        /\ records' = recs
        /\ raised' = (fails \/ (ranking /\ RankRaises(conn)))
        /\ queries' = IF short THEN <<>>
                      ELSE SearchQueries(term, found) \o (IF ranking THEN RankQueries ELSE <<>>)
        /\ ranked_input' = IF ranking THEN found ELSE <<>>
        /\ recent_tvks' = IF ranking THEN GetRecentSpecies("recent" \in conn.fails)' ELSE {}
        /\ all_recorded_tvks' = IF ranking THEN GetAllRecordedSpecies("all" \in conn.fails)' ELSE {}
        /\ results' = IF raised' THEN <<>>
                      ELSE IF ranking
                      THEN Slice(RankResults(found, recent_tvks', all_recorded_tvks'), lim)
                      ELSE Slice(found, lim)
        /\ UNCHANGED <<taxa, common_names, synonyms, hierarchy, walk_vars>>

SearchSpeciesCall ==
    \E term \in Terms, lim \in Limits :
        LET found == Searched(term, lim)
        IN  \/ DoSearchSpecies(term, lim, NoConn, records, found)
            \/ \E recs \in RecordTables :
                   DoSearchSpecies(term, lim, [conn |-> TRUE, fails |-> {}], recs, found)
            \/ DoSearchSpecies(term, lim, [conn |-> TRUE, fails |-> {"recent", "all"}],
                               {RecordUniverse[i] : i \in 1..NumRecords}, found)

\* The caller takes the value returned; the next call starts afresh (no
\* state is kept between calls, and the observations may have changed).
Return ==
    /\ op \in {"search", "search_species"}
    /\ op' = "idle"
    /\ search_term' = <<>>
    /\ limit' = 0
    /\ obs_db_conn' = NoConn
    /\ records' = {}
    /\ results' = <<>>
    /\ ranked_input' = <<>>
    /\ recent_tvks' = {}
    /\ queries' = <<>>
    /\ all_recorded_tvks' = {}
    /\ raised' = FALSE
    /\ UNCHANGED <<taxa, common_names, synonyms, hierarchy, walk_vars>>

Next == SearchCall \/ SearchSpeciesCall \/ Return

Spec == Init /\ [][Next]_vars

-----------------------------------------------------------------------------
(* search_species of database/uksi_handler.py, the handler before the       *)
(* refactoring: one method holding the history reads, the query, the         *)
(* priorities and the sort.                                                  *)

\* One try block holds both history reads: when the first SELECT fails no set
\* is assigned, when the second fails the recent set is already assigned.
LegacyRecentTvks(conn) ==
    IF ~conn.conn \/ "recent" \in conn.fails THEN {} ELSE GetRecentSpecies(FALSE)

LegacyAllRecordedTvks(conn) ==
    IF ~conn.conn \/ conn.fails # {} THEN {} ELSE GetAllRecordedSpecies(FALSE)

\* WITH unique_taxa AS (SELECT t.scientific_name, MIN(t.tvk) ... WHERE ...
\* GROUP BY t.scientific_name): for every matched scientific name the lowest
\* key among the matched taxa that carry it.
LegacyUniqueTaxa(term) ==
    LET matched == MatchedTvks(term)
    IN  {k \in matched :
            \A k2 \in matched :
                taxa[k2].scientific_name = taxa[k].scientific_name => k <= k2}

\* ORDER BY CASE WHEN t.scientific_name LIKE ? THEN 1 ELSE 2 END, t.scientific_name :
\* a comes strictly before b.
LegacyBefore(a, b) ==
    \/ a[1] < b[1]
    \/ a[1] = b[1] /\ StrLess(a[2], b[2])

RECURSIVE LegacySortRows(_, _)
LegacySortRows(keys, key) ==
    IF keys = {} THEN <<>>
    ELSE LET first == CHOOSE k \in keys :
                          \A k2 \in keys \ {k} :
                              \/ LegacyBefore(key[k], key[k2])
                              \/ key[k] = key[k2] /\ k < k2
         IN  <<first>> \o LegacySortRows(keys \ {first}, key)

\* The rows fetched: unique_taxa joined to taxa, ordered, LIMIT limit * 3.
LegacyFetched(term, lim) ==
    LET keys == LegacyUniqueTaxa(term)
        ordered == LegacySortRows(keys,
                       [k \in keys |-> <<StartTier(k, term), taxa[k].scientific_name>>])
        fetched == SqlLimit(ordered, Oversample * lim)
    IN  [i \in 1..Len(fetched) |->
            [tvk |-> fetched[i],
             scientific_name |-> taxa[fetched[i]].scientific_name,
             common_names |-> GroupConcat(fetched[i]),
             rank |-> taxa[fetched[i]].rank]]

\* The legacy search_species raises when its statement does not parse.
LegacyRaises(term) == ~ShortTerm(term) /\ QueryRaises(term)

\* The list the legacy search_species returns: the rows are always sorted by
\* (_priority, scientific_name), with or without a history, then cut.
LegacySearchSpecies(term, lim, conn) ==
    IF ShortTerm(term) THEN <<>>
    ELSE Slice(StableSort(LegacyFetched(term, lim), <<>>,
                          LegacyRecentTvks(conn), LegacyAllRecordedTvks(conn)), lim)

-----------------------------------------------------------------------------
(* rank_results on lists of entries and observation histories.              *)

\* rank_results is given lists of at most MaxRankLen entries.
MaxRankLen == 3

RankEntries ==
    {[tvk |-> k, scientific_name |-> n, common_names |-> Null, rank |-> Species] :
        k \in 1..3, n \in {<<"a","b">>, <<"B","a">>, <<"b">>}}

RECURSIVE ListsUpTo(_)
ListsUpTo(n) ==
    IF n = 0 THEN {<<>>}
    ELSE ListsUpTo(n - 1) \cup
         {Append(l, e) : l \in {x \in ListsUpTo(n - 1) : Len(x) = n - 1}, e \in RankEntries}

\* A record of today minus 10 days, one on each side of the 30-day boundary,
\* and one without a taxon.
RankRecordPool ==
    {[taxon_id |-> 1, age |-> 10], [taxon_id |-> 2, age |-> 31],
     [taxon_id |-> 3, age |-> 30], [taxon_id |-> NoKey, age |-> 5]}

InitRank ==
    /\ taxa = <<>>
    /\ common_names = <<>>
    /\ synonyms = <<>>
    /\ hierarchy = <<>>
    /\ records \in SUBSET RankRecordPool
    /\ op = "idle"
    /\ search_term = <<>>
    /\ limit = 0
    /\ obs_db_conn = NoConn
    /\ results = <<>>
    /\ ranked_input = <<>>
    /\ recent_tvks = {}
    /\ queries = <<>>
    /\ all_recorded_tvks = {}
    /\ raised = FALSE
    /\ tvk = NoKey
    /\ current_tvk = NoKey
    /\ visited = {}
    /\ depth = 0
    /\ taxonomy = NoTaxonomy
    /\ species = NoSpecies
    /\ path = NoPath

\* UKSIRanker.rank_results(list, conn): the two reads, the priorities, the
\* sort; the list is sorted in place and returned.
DoRankResults(list, conn) ==
    /\ op = "idle"
    /\ op' = "rank_results"
    /\ obs_db_conn' = conn
    /\ ranked_input' = list
    /\ recent_tvks' = GetRecentSpecies("recent" \in conn.fails)
    /\ all_recorded_tvks' = GetAllRecordedSpecies("all" \in conn.fails)
    /\ raised' = RankRaises(conn)
    /\ queries' = RankQueries
    /\ results' = IF raised' THEN <<>>
                  ELSE RankResults(list, recent_tvks', all_recorded_tvks')
    /\ UNCHANGED <<taxa, common_names, synonyms, hierarchy, records, search_term, limit,
                   walk_vars>>

RankCall ==
    \E list \in ListsUpTo(MaxRankLen), fails \in SUBSET {"recent", "all"} :
        DoRankResults(list, [conn |-> TRUE, fails |-> fails])

\* The caller takes the list returned.
RankReturn ==
    /\ op = "rank_results"
    /\ op' = "idle"
    /\ obs_db_conn' = NoConn
    /\ results' = <<>>
    /\ ranked_input' = <<>>
    /\ recent_tvks' = {}
    /\ queries' = <<>>
    /\ all_recorded_tvks' = {}
    /\ raised' = FALSE
    /\ UNCHANGED <<taxa, common_names, synonyms, hierarchy, records, search_term, limit,
                   walk_vars>>

NextRank == RankCall \/ RankReturn

SpecRank == InitRank /\ [][NextRank]_vars

-----------------------------------------------------------------------------
(* rank_results while the records table is written between its two reads.   *)

\* Lists of at most MaxConcLen entries are ranked in this specification.
MaxConcLen == 2

InitRankConc == InitRank

\* rank_results up to the return of _get_recent_species: the first read.
DoReadRecent(list, conn) ==
    /\ op = "idle"
    /\ op' = "rank_reading"
    /\ obs_db_conn' = conn
    /\ ranked_input' = list
    /\ recent_tvks' = GetRecentSpecies("recent" \in conn.fails)
    /\ queries' = SubSeq(RankQueries, 1, 1)
    /\ UNCHANGED <<dataset_vars, search_term, limit, results, all_recorded_tvks, raised,
                   walk_vars>>

ReadRecent ==
    \E list \in ListsUpTo(MaxConcLen), fails \in SUBSET {"recent", "all"} :
        DoReadRecent(list, [conn |-> TRUE, fails |-> fails])

\* Another connection inserts a record while rank_results is between its reads.
ObservationInsert ==
    /\ op = "rank_reading"
    /\ \E r \in RankRecordPool \ records : records' = records \cup {r}
    /\ UNCHANGED <<taxa, common_names, synonyms, hierarchy, op, search_vars, raised,
                   walk_vars>>

\* Another connection deletes a record while rank_results is between its reads.
ObservationDelete ==
    /\ op = "rank_reading"
    /\ \E r \in records : records' = records \ {r}
    /\ UNCHANGED <<taxa, common_names, synonyms, hierarchy, op, search_vars, raised,
                   walk_vars>>

\* The rest of rank_results: the second read, the priorities, the sort.
ReadAllAndSort ==
    /\ op = "rank_reading"
    /\ op' = "rank_results"
    /\ all_recorded_tvks' = GetAllRecordedSpecies("all" \in obs_db_conn.fails)
    /\ queries' = queries \o SubSeq(RankQueries, 2, 2)
    /\ raised' = RankRaises(obs_db_conn)
    /\ results' = IF raised' THEN <<>>
                  ELSE RankResults(ranked_input, recent_tvks, all_recorded_tvks')
    /\ UNCHANGED <<dataset_vars, search_term, limit, obs_db_conn, ranked_input,
                   recent_tvks, walk_vars>>

NextRankConc ==
    ReadRecent \/ ObservationInsert \/ ObservationDelete \/ ReadAllAndSort \/ RankReturn

SpecRankConc == InitRankConc /\ [][NextRankConc]_vars

-----------------------------------------------------------------------------
(* get_species_by_tvk on hierarchies with cycles and dangling parents.      *)

\* Taxa 1..NumHierTaxa exist; key NumHierTaxa + 1 is in no table.
NumHierTaxa == 4

\* The long chain has more taxa than the walk may examine.
ChainLen == max_depth + 2

HierUniverse ==
    <<[scientific_name |-> <<"A","a">>, rank |-> Species],
      [scientific_name |-> <<"B","b">>, rank |-> Genus],
      [scientific_name |-> <<"C","c">>, rank |-> <<"G","E","N","U","S">>],
      [scientific_name |-> <<"D","d">>, rank |-> Family],
      [scientific_name |-> <<"E","e">>, rank |-> <<"O","r","d","e","r">>]>>

\* Every taxon of the universe, the first one with a rank or with none.
HierTaxaTables ==
    {[k \in 1..NumHierTaxa |->
        IF k = 1 THEN [HierUniverse[1] EXCEPT !.rank = r] ELSE HierUniverse[k]] :
        r \in {Species, Null}}

\* Every parent function: no parent, an existing taxon (itself included), or
\* a key that is in no table.
Hierarchies == [1..NumHierTaxa -> {NoKey} \cup 1..(NumHierTaxa + 1)]

\* A chain 1 -> 2 -> ... -> ChainLen: a Phylum is the last taxon within reach
\* of the walk from 1, a Kingdom the first one out of reach.
ChainTaxa ==
    [k \in 1..ChainLen |->
        [scientific_name |-> <<"T", Upper[k]>>,
         rank |-> IF k = max_depth THEN <<"P","h","y","l","u","m">>
                  ELSE IF k = max_depth + 1 THEN <<"K","i","n","g","d","o","m">>
                  ELSE IF k = 2 THEN Genus
                  ELSE Species]]

\* The chain ends at its top, or closes into a cycle.
ChainHierarchies ==
    {[k \in 1..ChainLen |-> IF k < ChainLen THEN k + 1 ELSE top] : top \in {NoKey, 1}}

InitHier ==
    /\ \/ taxa \in HierTaxaTables /\ hierarchy \in Hierarchies
       \/ taxa = ChainTaxa /\ hierarchy \in ChainHierarchies
    /\ common_names = <<>>
    /\ synonyms = <<>>
    /\ records = {}
    /\ op = "idle"
    /\ search_term = <<>>
    /\ limit = 0
    /\ obs_db_conn = NoConn
    /\ results = <<>>
    /\ ranked_input = <<>>
    /\ recent_tvks = {}
    /\ queries = <<>>
    /\ all_recorded_tvks = {}
    /\ raised = FALSE
    /\ tvk = NoKey
    /\ current_tvk = NoKey
    /\ visited = {}
    /\ depth = 0
    /\ taxonomy = NoTaxonomy
    /\ species = NoSpecies
    /\ path = NoPath

\* get_species_by_tvk(k) for a key with no row in taxa: returns None.
GetSpeciesNotFound ==
    \E k \in 1..(NumHierTaxa + 1) :
        /\ op = "idle"
        /\ ~TaxonExists(k)
        /\ op' = "get_species_by_tvk"
        /\ tvk' = k
        /\ species' = NoSpecies
        /\ UNCHANGED <<dataset_vars, search_vars, raised, current_tvk, visited,
                       depth, taxonomy, path>>

\* get_species_by_tvk(k) for an existing taxon: _build_taxonomy(k) starts.
GetSpeciesByTvk ==
    \E k \in 1..(NumHierTaxa + 1) :
        /\ op = "idle"
        /\ TaxonExists(k)
        /\ op' = "walk"
        /\ tvk' = k
        /\ current_tvk' = k
        /\ visited' = {}
        /\ depth' = 0
        /\ taxonomy' = NoTaxonomy
        /\ species' = NoSpecies
        /\ UNCHANGED <<dataset_vars, search_vars, raised, path>>

\* The while condition is false: the top was passed or max_depth reached.
LoopExit ==
    /\ op = "walk"
    /\ ~LoopCondition
    /\ op' = "built"
    /\ UNCHANGED <<dataset_vars, search_vars, raised, walk_vars>>

\* if current_tvk in visited: break
CycleBreak ==
    /\ op = "walk"
    /\ LoopCondition
    /\ AlreadyVisited
    /\ op' = "built"
    /\ UNCHANGED <<dataset_vars, search_vars, raised, walk_vars>>

\* if not row: break  (the parent key has no row in taxa)
MissingRowBreak ==
    /\ op = "walk"
    /\ LoopCondition
    /\ ~AlreadyVisited
    /\ ~TaxonExists(current_tvk)
    /\ op' = "built"
    /\ visited' = visited \cup {current_tvk}
    /\ UNCHANGED <<dataset_vars, search_vars, raised, tvk, current_tvk, depth,
                   taxonomy, species, path>>

\* elif depth == 0 and not parent_tvk: break  (after the level is stored)
NoParentBreak ==
    /\ op = "walk"
    /\ LoopCondition
    /\ ~AlreadyVisited
    /\ TaxonExists(current_tvk)
    /\ depth = 0
    /\ ParentOf(current_tvk) = NoKey
    /\ op' = "built"
    /\ visited' = visited \cup {current_tvk}
    /\ taxonomy' = [taxonomy EXCEPT !.levels = StoreLevel(@, current_tvk)]
    /\ UNCHANGED <<dataset_vars, search_vars, raised, tvk, current_tvk, depth,
                   species, path>>

\* One full iteration: the level is stored, the parent of the starting taxon
\* recorded, and the walk moves up to the parent.
WalkStep ==
    /\ op = "walk"
    /\ LoopCondition
    /\ ~AlreadyVisited
    /\ TaxonExists(current_tvk)
    /\ ~(depth = 0 /\ ParentOf(current_tvk) = NoKey)
    /\ visited' = visited \cup {current_tvk}
    /\ taxonomy' =
          [levels |-> StoreLevel(taxonomy.levels, current_tvk),
           parent_tvk |-> StoreParent(ParentOf(current_tvk))]
    /\ current_tvk' = ParentOf(current_tvk)
    /\ depth' = depth + 1
    /\ UNCHANGED <<dataset_vars, search_vars, raised, op, tvk, species, path>>

\* _build_taxonomy returns; get_species_by_tvk returns the dictionary.
ReturnSpecies ==
    /\ op = "built"
    /\ op' = "get_species_by_tvk"
    /\ species' = ReturnedSpecies
    /\ UNCHANGED <<dataset_vars, search_vars, raised, tvk, current_tvk, visited,
                   depth, taxonomy, path>>

\* get_taxonomy_path, after its call of get_species_by_tvk returned: the
\* levels are joined and the text returned.
GetTaxonomyPath ==
    /\ op = "get_species_by_tvk"
    /\ op' = "get_taxonomy_path"
    /\ path' = TaxonomyPath(species)
    /\ UNCHANGED <<dataset_vars, search_vars, raised, tvk, current_tvk, visited,
                   depth, taxonomy, species>>

\* The caller takes the value returned.
HierReturn ==
    /\ op \in {"get_species_by_tvk", "get_taxonomy_path"}
    /\ op' = "idle"
    /\ path' = NoPath
    /\ tvk' = NoKey
    /\ current_tvk' = NoKey
    /\ visited' = {}
    /\ depth' = 0
    /\ taxonomy' = NoTaxonomy
    /\ species' = NoSpecies
    /\ UNCHANGED <<dataset_vars, search_vars, raised>>

Walk == LoopExit \/ CycleBreak \/ MissingRowBreak \/ NoParentBreak \/ WalkStep

NextHier ==
    \/ GetSpeciesNotFound
    \/ GetSpeciesByTvk
    \/ LoopExit
    \/ CycleBreak
    \/ MissingRowBreak
    \/ NoParentBreak
    \/ WalkStep
    \/ ReturnSpecies
    \/ GetTaxonomyPath
    \/ HierReturn

SpecHier == InitHier /\ [][NextHier]_vars

\* The call runs to completion: Python executes the loop and the return.
SpecHierFair == SpecHier /\ WF_vars(Walk) /\ WF_vars(ReturnSpecies)

-----------------------------------------------------------------------------
(* Properties.                                                              *)

\* word occurs in text as a substring, ignoring ASCII case.
ContainsCI(text, word) ==
    /\ text # Null
    /\ \E i \in 0..(Len(text) - Len(word)) :
           \A j \in 1..Len(word) : LowerChar(text[i + j]) = LowerChar(word[j])

\* The common names of a taxon.
CommonNamesOf(k) ==
    {common_names[i].common_name : i \in {j \in DOMAIN common_names : common_names[j].tvk = k}}

\* Every word of the term occurs in the scientific name or in some common name
\* of the taxon (not necessarily the same common name for every word).
TaxonSatisfies(k, term) ==
    \A w \in Range(Split(term)) :
        \/ ContainsCI(taxa[k].scientific_name, w)
        \/ \E cn \in CommonNamesOf(k) : ContainsCI(cn, w)

ScientificNames(list) == {list[i].scientific_name : i \in DOMAIN list}

\* The tier of an entry under the two sets the ranker read.
Tier(e) ==
    IF e.tvk \in recent_tvks THEN 1
    ELSE IF e.tvk \in all_recorded_tvks THEN 2
    ELSE 3

\* a may stand before b in ascending (tier, scientific name) order.
RankOrdered(a, b) ==
    \/ Tier(a) < Tier(b)
    \/ Tier(a) = Tier(b) /\ ~StrLess(b.scientific_name, a.scientific_name)

Occurrences(list, e) == Cardinality({i \in DOMAIN list : list[i] = e})

\* C1: no list returned by search or by search_species (with or without a
\* history) holds two entries with the same scientific_name.
C1_NoDuplicateNames ==
    op \in {"search", "search_species"} =>
        \A i, j \in DOMAIN results :
            i # j => results[i].scientific_name # results[j].scientific_name

\* C1 witness: search_species with a history returned two or more entries
\* although two matched taxa share one scientific name.
C1_Witness ==
    /\ op = "search_species"
    /\ obs_db_conn.conn
    /\ Len(results) >= 2
    /\ \E a, b \in MatchedTvks(search_term) :
           a # b /\ taxa[a].scientific_name = taxa[b].scientific_name

\* C2 as claimed: with no truncation by the limit, the scientific names
\* returned by search are exactly those of the taxa in which every word of the
\* term occurs (ignoring case) in the scientific name or in some common name,
\* a different common name being allowed for each word.
C2_Claim ==
    (op = "search" /\ ~raised /\ limit >= Cardinality(DOMAIN taxa)) =>
        ScientificNames(results) =
            {taxa[k].scientific_name :
                k \in {t \in DOMAIN taxa : TaxonSatisfies(t, search_term)}}

\* C3 as claimed: every entry returned has every word of the term (ignoring
\* case) in its scientific name or in a common name of its taxon.
C3_Claim ==
    (op \in {"search", "search_species"} /\ ~raised) =>
        \A i \in DOMAIN results : TaxonSatisfies(results[i].tvk, search_term)

\* C4: in every list returned by rank_results the entries of tier 1 (key in
\* the recent set) come before those of tier 2 (key in the all-ever set only),
\* which come before those of tier 3 (key in neither set).
C4_TiersInOrder ==
    op = "rank_results" =>
        \A i, j \in DOMAIN results : i < j => Tier(results[i]) <= Tier(results[j])

\* C4 witness: T1 recorded 10 days ago, T2 recorded 31 days ago and T3 never
\* recorded were handed over in another order and are returned as T1, T2, T3.
C4_Witness ==
    /\ op = "rank_results"
    /\ Len(results) = 3
    /\ <<Tier(results[1]), Tier(results[2]), Tier(results[3])>> = <<1, 2, 3>>
    /\ <<Tier(ranked_input[1]), Tier(ranked_input[2]), Tier(ranked_input[3])>> = <<3, 2, 1>>
    /\ [taxon_id |-> results[1].tvk, age |-> 10] \in records
    /\ StrLess(results[3].scientific_name, results[1].scientific_name)

\* C5: rank_results returns a permutation of its input: every entry (and so
\* every taxon key) occurs in the output as often as in the input.
C5_Permutation ==
    op = "rank_results" =>
        /\ Len(results) = Len(ranked_input)
        /\ \A e \in RankEntries : Occurrences(results, e) = Occurrences(ranked_input, e)

\* C5 witness: a list holding one entry twice was reordered.
C5_Witness ==
    /\ op = "rank_results"
    /\ results # ranked_input
    /\ \E e \in RankEntries : Occurrences(ranked_input, e) = 2

\* The first 3 * limit entries of the searcher's order for the term.
OversampledPool == Slice(Search(search_term, -1), 3 * limit)

\* results is the first `limit` entries of the pool put in ascending
\* (tier, scientific name) order.
RankedPrefixOfPool ==
    LET pool == OversampledPool
    IN  /\ Len(results) = Min(limit, Len(pool))
        /\ \A i \in DOMAIN results : \E j \in DOMAIN pool : pool[j] = results[i]
        /\ \A i, j \in DOMAIN results : i < j => RankOrdered(results[i], results[j])
        /\ \A j \in DOMAIN pool :
               (\A i \in DOMAIN results : results[i] # pool[j]) =>
                   \A i \in DOMAIN results : RankOrdered(results[i], pool[j])

C7_ShortTermEmpty ==
    (op = "search_species" /\ Len(search_term) < 2) => (results = <<>> /\ ~raised)

\* C7 witness: a one-character term the searcher has matches for, with a
\* history and a positive limit.
C7_Witness ==
    /\ op = "search_species"
    /\ Len(search_term) = 1
    /\ obs_db_conn.conn
    /\ limit > 0
    /\ Search(search_term, limit) # <<>>

\* C8: get_species_by_tvk on an existing taxon terminates, returns a dictionary
\* without raising, and the walk stops, keeping the levels, as soon as the key
\* to examine next is in the visited set.
C8_CycleSafe ==
    /\ (op = "walk") ~> (op = "get_species_by_tvk")
    /\ [](op = "get_species_by_tvk" /\ tvk \in DOMAIN taxa => species # NoSpecies /\ ~raised)
    /\ [][(op = "walk" /\ LoopCondition /\ current_tvk \in visited)
              => (op' = "built" /\ taxonomy' = taxonomy)]_vars

\* C8 witness: a call returned after the walk ran into a loop of two or more
\* taxa.
C8_Witness ==
    /\ op = "get_species_by_tvk"
    /\ species # NoSpecies
    /\ current_tvk \in visited
    /\ Cardinality(visited) >= 2
    /\ depth < max_depth

\* The taxa met from k upward along the parent links of the dataset.
RECURSIVE Ancestry(_, _)
Ancestry(k, seen) ==
    IF k = NoKey \/ k \notin DOMAIN taxa \/ k \in seen THEN <<>>
    ELSE <<k>> \o Ancestry(ParentOf(k), seen \cup {k})

HoldsRank(k, level) == taxa[k].rank # Null /\ LowerStr(taxa[k].rank) = level

LevelsOf(dict) ==
    <<dict.kingdom, dict.phylum, dict.class, dict.order, dict.family, dict.genus>>

\* C9: the value returned for a level is the scientific name of the nearest
\* taxon on the way up that holds that rank.
C9_NearestWins ==
    (op = "get_species_by_tvk" /\ species # NoSpecies) =>
        LET line == Ancestry(tvk, {})
        IN  \A n \in DOMAIN TaxonomyLevels :
                LevelsOf(species[1])[n] # Null =>
                    \E i \in DOMAIN line :
                        /\ HoldsRank(line[i], TaxonomyLevels[n])
                        /\ taxa[line[i]].scientific_name = LevelsOf(species[1])[n]
                        /\ \A j \in 1..(i - 1) : ~HoldsRank(line[j], TaxonomyLevels[n])

\* C9 witness: two ancestors hold the rank genus and the nearer one is returned.
C9_Witness ==
    /\ op = "get_species_by_tvk"
    /\ species # NoSpecies
    /\ species[1].genus # Null
    /\ \E a, b \in visited \cap DOMAIN taxa :
           /\ a # b /\ a # tvk /\ b # tvk
           /\ HoldsRank(a, TaxonomyLevels[6])
           /\ HoldsRank(b, TaxonomyLevels[6])

\* C10: get_species_by_tvk returns None exactly when the key has no row in
\* taxa, and never raises.
C10_NotFoundOnlyForMissingKey ==
    op = "get_species_by_tvk" =>
        /\ (species = NoSpecies) <=> (tvk \notin DOMAIN taxa)
        /\ ~raised

\* C10 witness: a dictionary with no level was returned for a taxon whose
\* parent key has no row in taxa.
C10_Witness ==
    /\ op = "get_species_by_tvk"
    /\ species # NoSpecies
    /\ species[1].parent_tvk \notin DOMAIN taxa
    /\ species[1].parent_tvk # NoKey
    /\ LevelsOf(species[1]) = <<Null, Null, Null, Null, Null, Null>>

\* The tier of a taxon among those of its name: 3 for a hybrid name, 2 for an
\* infraspecific rank, 1 otherwise (letters compared ignoring case, as LIKE does).
RepresentativeTier(k) ==
    IF ContainsCI(taxa[k].scientific_name, <<" ","x"," ">>) THEN 3
    ELSE IF \/ ContainsCI(taxa[k].rank, Subspecies)
            \/ ContainsCI(taxa[k].rank, <<"V","a","r","i","e","t","y">>)
            \/ ContainsCI(taxa[k].rank, <<"F","o","r","m">>)
         THEN 2
    ELSE 1

\* a is strictly below b under (tier, length of scientific name, taxon key).
RepresentativeBefore(a, b) ==
    \/ RepresentativeTier(a) < RepresentativeTier(b)
    \/ /\ RepresentativeTier(a) = RepresentativeTier(b)
       /\ Len(taxa[a].scientific_name) < Len(taxa[b].scientific_name)
    \/ /\ RepresentativeTier(a) = RepresentativeTier(b)
       /\ Len(taxa[a].scientific_name) = Len(taxa[b].scientific_name)
       /\ a < b

\* C11: the entry returned for a scientific name is, of the matched taxa with
\* that name, the one minimal under (tier, length of name, taxon key).
C11_Representative ==
    (op = "search" /\ ~raised) =>
        LET matched == MatchedTvks(search_term)
        IN  \A i \in DOMAIN results :
                /\ results[i].tvk \in matched
                /\ \A k \in matched \ {results[i].tvk} :
                       taxa[k].scientific_name = results[i].scientific_name
                           => RepresentativeBefore(results[i].tvk, k)

\* C11 witness: a Species taxon is returned although a Subspecies taxon of the
\* same name with a smaller key matched too.
C11_Witness ==
    /\ op = "search"
    /\ \E i \in DOMAIN results :
           \E k \in MatchedTvks(search_term) :
               /\ taxa[k].scientific_name = results[i].scientific_name
               /\ k < results[i].tvk
               /\ taxa[k].rank = Subspecies
               /\ results[i].rank = Species

\* The scientific name starts with the term, ignoring case.
StartsWithCI(name, term) ==
    /\ Len(term) <= Len(name)
    /\ \A j \in 1..Len(term) : LowerChar(name[j]) = LowerChar(term[j])

\* Entry a stands strictly before entry b in the order (names starting with the
\* term first, then shorter names, then ascending names).
StartLengthNameBefore(a, b, term) ==
    LET ga == IF StartsWithCI(a.scientific_name, term) THEN 1 ELSE 2
        gb == IF StartsWithCI(b.scientific_name, term) THEN 1 ELSE 2
    IN  \/ ga < gb
        \/ ga = gb /\ Len(a.scientific_name) < Len(b.scientific_name)
        \/ /\ ga = gb
           /\ Len(a.scientific_name) = Len(b.scientific_name)
           /\ StrLess(a.scientific_name, b.scientific_name)

\* C12 as claimed: the searcher's output is strictly ordered by (name starts
\* with the term, length of name, name).
C12_Claim ==
    (op = "search" /\ ~raised) =>
        \A i, j \in DOMAIN results :
            i < j => StartLengthNameBefore(results[i], results[j], search_term)

\* The lists that hold the entries of list in another (or the same) order.
Reorderings(list) ==
    {[i \in DOMAIN list |-> list[q[i]]] :
        q \in {f \in [DOMAIN list -> DOMAIN list] :
                  \A i, j \in DOMAIN list : i # j => f[i] # f[j]}}

DistinctNames(list) ==
    \A i, j \in DOMAIN list : i # j => list[i].scientific_name # list[j].scientific_name

\* C13: the output of rank_results is in ascending (tier, scientific name)
\* order; for an input with pairwise distinct names every reordering of the
\* input gives the same output; ranking the output again leaves it unchanged.
C13_CanonicalOrder ==
    op = "rank_results" =>
        /\ \A i, j \in DOMAIN results : i < j => RankOrdered(results[i], results[j])
        /\ DistinctNames(ranked_input) =>
               \A other \in Reorderings(ranked_input) :
                   RankResults(other, recent_tvks, all_recorded_tvks) = results
        /\ RankResults(results, recent_tvks, all_recorded_tvks) = results

\* C13 witness: three entries with distinct names, two of them in one tier and
\* handed over in descending name order, were reordered.
C13_Witness ==
    /\ op = "rank_results"
    /\ Len(ranked_input) = 3
    /\ DistinctNames(ranked_input)
    /\ results # ranked_input
    /\ \E i, j \in DOMAIN ranked_input :
           /\ i < j
           /\ Tier(ranked_input[i]) = Tier(ranked_input[j])
           /\ StrLess(ranked_input[j].scientific_name, ranked_input[i].scientific_name)
    /\ \E i, j \in DOMAIN ranked_input : Tier(ranked_input[i]) # Tier(ranked_input[j])

\* C14: when one or both history lookups fail rank_results does not raise and
\* returns a permutation of its input.
C14_LookupFailureContained ==
    (op = "rank_results" /\ obs_db_conn.fails # {}) =>
        /\ ~raised
        /\ Len(results) = Len(ranked_input)
        /\ \A e \in RankEntries : Occurrences(results, e) = Occurrences(ranked_input, e)

\* C14 witness: the first lookup failed, the second read recorded taxa, and a
\* list of three entries was returned in another order.
C14_Witness ==
    /\ op = "rank_results"
    /\ obs_db_conn.fails = {"recent"}
    /\ all_recorded_tvks # {}
    /\ Len(results) = 3
    /\ results # ranked_input

\* C15 as claimed: when a history lookup fails both sets are empty, every
\* entry is in tier 3 and the output is the input in scientific-name order.
C15_Claim ==
    (op = "rank_results" /\ obs_db_conn.fails # {}) =>
        /\ recent_tvks = {} /\ all_recorded_tvks = {}
        /\ \A i, j \in DOMAIN results :
               i < j => ~StrLess(results[j].scientific_name, results[i].scientific_name)

\* search_species did what UKSISearch.search(term, limit) does: it raised if
\* that call raises, and returned the same list otherwise.
SameAsSearch ==
    /\ raised = QueryRaises(search_term)
    /\ ~raised => results = Search(search_term, limit)

RECURSIVE PathFrom(_, _)
PathFrom(values, n) ==
    IF n > Len(values) THEN <<>>
    ELSE LET rest == PathFrom(values, n + 1)
         IN  IF values[n] = Null THEN rest
             ELSE IF rest = <<>> THEN values[n]
             ELSE values[n] \o <<" ", ">", " ">> \o rest

\* C17: get_taxonomy_path returns the populated levels of the resolved taxon
\* in the order kingdom, phylum, class, order, family, genus joined by " > ",
\* with nothing for a level without a value, and the empty text when no level
\* has a value or the key is unknown.
C17_TaxonomyPath ==
    op = "get_taxonomy_path" =>
        path = IF tvk \in DOMAIN taxa /\ species # NoSpecies
               THEN PathFrom(LevelsOf(species[1]), 1)
               ELSE <<>>

\* C17 witness: the family was met before the genus on the way up, the path
\* names the family first, and the levels above it are skipped.
C17_Witness ==
    /\ op = "get_taxonomy_path"
    /\ species # NoSpecies
    /\ hierarchy[tvk] \in DOMAIN taxa
    /\ HoldsRank(hierarchy[tvk], TaxonomyLevels[5])
    /\ species[1].genus # Null
    /\ species[1].kingdom = Null
    /\ path = species[1].family \o <<" ", ">", " ">> \o species[1].genus

\* C18: when the starting taxon has a parent edge, the parent_tvk returned is
\* the key of that parent, whatever the parent is.
C18_ImmediateParent ==
    (op = "get_species_by_tvk" /\ species # NoSpecies
        /\ tvk \in DOMAIN hierarchy /\ hierarchy[tvk] # NoKey) =>
            species[1].parent_tvk = hierarchy[tvk]

\* C18 witness: the walk went on over two further ancestors and the key
\* returned is that of the first.
C18_Witness ==
    /\ op = "get_species_by_tvk"
    /\ species # NoSpecies
    /\ hierarchy[tvk] \in DOMAIN taxa \ {tvk}
    /\ hierarchy[hierarchy[tvk]] \in DOMAIN taxa \ {tvk, hierarchy[tvk]}
    /\ hierarchy[hierarchy[tvk]] \in visited
    /\ species[1].parent_tvk = hierarchy[tvk]

\* The text holds every word of the term, ignoring case.
HoldsEveryWord(text, term) == \A w \in Range(Split(term)) : ContainsCI(text, w)

\* C19 as claimed: a taxon that has a synonym holding every word of the term
\* is matched, so with no truncation its scientific name is in the result.
C19_Claim ==
    (op = "search" /\ ~raised /\ limit >= Cardinality(DOMAIN taxa)) =>
        \A i \in DOMAIN synonyms :
            (synonyms[i].tvk \in DOMAIN taxa /\ HoldsEveryWord(synonyms[i].synonym, search_term))
                => taxa[synonyms[i].tvk].scientific_name \in ScientificNames(results)

\* The levels found are held by taxa among the first max_depth of the line.
WithinCap ==
    (op = "get_species_by_tvk" /\ species # NoSpecies) =>
        LET line == Ancestry(tvk, {})
        IN  \A n \in DOMAIN TaxonomyLevels :
                LevelsOf(species[1])[n] # Null =>
                    \E i \in DOMAIN line :
                        /\ i <= 20
                        /\ HoldsRank(line[i], TaxonomyLevels[n])
                        /\ taxa[line[i]].scientific_name = LevelsOf(species[1])[n]

\* C20: a walk examines at most 20 taxa, the starting taxon included, each at
\* most once, and a level held only by an ancestor beyond the 20th stays
\* without a value.
C20_DepthCap ==
    /\ [](Cardinality(visited) <= 20 /\ depth <= 20)
    /\ [][(visited' # visited /\ visited' # {})
              => (current_tvk \notin visited /\ visited' = visited \cup {current_tvk})]_vars
    /\ []WithinCap

\* C20 witness: on the chain of 22 taxa the walk from the first stopped after
\* 20 taxa with no cycle; the phylum of the 20th is returned, the kingdom of
\* the 21st is not.
C20_Witness ==
    /\ op = "get_species_by_tvk"
    /\ species # NoSpecies
    /\ Cardinality(visited) = 20
    /\ current_tvk # NoKey
    /\ current_tvk \notin visited
    /\ HoldsRank(current_tvk, TaxonomyLevels[1])
    /\ species[1].kingdom = Null
    /\ species[1].phylum # Null

\* The starting taxon has no parent edge: no hierarchy row, or a NULL parent.
NoParentEdge == tvk \notin DOMAIN hierarchy \/ hierarchy[tvk] = NoKey

\* C21: when the starting taxon has no parent edge only the starting taxon is
\* examined, parent_tvk is None and no level comes from another taxon.
C21_NoParentEdge ==
    (op = "get_species_by_tvk" /\ species # NoSpecies /\ NoParentEdge) =>
        /\ species[1].parent_tvk = NoKey
        /\ visited = {tvk}
        /\ \A n \in DOMAIN TaxonomyLevels :
               LevelsOf(species[1])[n] # Null =>
                   /\ HoldsRank(tvk, TaxonomyLevels[n])
                   /\ LevelsOf(species[1])[n] = taxa[tvk].scientific_name

\* C21 witness: a species without a parent edge was resolved while the taxon
\* with the next key, a genus, is in the dataset; no level is returned.
C21_Witness ==
    /\ op = "get_species_by_tvk"
    /\ species # NoSpecies
    /\ NoParentEdge
    /\ taxa[tvk].rank = Species
    /\ (tvk + 1) \in DOMAIN taxa
    /\ HoldsRank(tvk + 1, TaxonomyLevels[6])
    /\ LevelsOf(species[1]) = <<Null, Null, Null, Null, Null, Null>>

\* C29: the starting taxon's own name is recorded in the level of its own rank
\* (compared ignoring case), before any ancestor of that rank, also when the
\* taxon has no parent edge.
C29_OwnRankRecorded ==
    (op = "get_species_by_tvk" /\ species # NoSpecies) =>
        \A n \in DOMAIN TaxonomyLevels :
            HoldsRank(tvk, TaxonomyLevels[n]) =>
                LevelsOf(species[1])[n] = taxa[tvk].scientific_name

\* C29 witness: the starting taxon has rank GENUS and its parent has rank
\* Genus; the starting taxon's name is the genus returned.
C29_Witness ==
    /\ op = "get_species_by_tvk"
    /\ species # NoSpecies
    /\ taxa[tvk].rank = <<"G","E","N","U","S">>
    /\ ~NoParentEdge
    /\ hierarchy[tvk] \in visited \cap DOMAIN taxa
    /\ taxa[hierarchy[tvk]].rank = Genus
    /\ species[1].genus = taxa[tvk].scientific_name


\* C22: UKSISearch.search, called directly, returns an empty result and does
\* not raise when the term is empty or shorter than 2 characters.
C22_Claim ==
    (op = "search" /\ Len(search_term) < 2) => (results = <<>> /\ ~raised)

\* C26: search_species never raises, whatever the term: a whitespace-only term
\* of length 2 or more yields an empty result.
C26_Claim ==
    op = "search_species" => (~raised /\ (Split(search_term) = <<>> => results = <<>>))

\* Every Tier-1 entry of the list has its scientific name in results.
RecentAllReturned(list) ==
    \A j \in DOMAIN list :
        Tier(list[j]) = 1 =>
            \E i \in DOMAIN results : results[i].scientific_name = list[j].scientific_name

\* results holds an entry never recorded.
ReturnsTier3 == \E i \in DOMAIN results : Tier(results[i]) = 3

\* C27 as claimed: with a history provider, if the output of search_species
\* holds a Tier-3 entry, every scientific name whose representative matches
\* the term and is Tier 1 is in the output.
C27_Claim ==
    (op = "search_species" /\ obs_db_conn.conn /\ ~raised /\ ReturnsTier3) =>
        RecentAllReturned(Search(search_term, -1))

\* C27 amended: the same for the representatives among the first 3 * limit
\* entries of the searcher's order, the ones handed to the ranker.
C27_RecentOfPoolReturned ==
    (op = "search_species" /\ obs_db_conn.conn /\ ~raised /\ ReturnsTier3) =>
        /\ ranked_input = Slice(Search(search_term, -1), Oversample * limit)
        /\ RecentAllReturned(ranked_input)

\* C27 witness: a Tier-1 entry that the searcher put after a Tier-3 entry is
\* returned, the pool holds more entries than the limit, and a Tier-3 entry
\* is returned behind it.
C27_Witness ==
    /\ op = "search_species" /\ obs_db_conn.conn /\ ~raised /\ ReturnsTier3
    /\ Len(ranked_input) > limit
    /\ \E j \in DOMAIN ranked_input :
           /\ j > limit
           /\ Tier(ranked_input[j]) = 1
           /\ Tier(ranked_input[1]) = 3
           /\ results[1] = ranked_input[j]

\* What search_species(term, limit) returns without a history provider.
UnrankedResults ==
    IF ShortTerm(search_term) THEN <<>>
    ELSE Slice(Search(search_term, Oversample * limit), limit)

\* C28: with a history provider whose two lookups both fail, or both return
\* the empty set, search_species returns the sequence it returns without a
\* history provider.
C28_Claim ==
    (/\ op = "search_species" /\ obs_db_conn.conn /\ ~raised
     /\ \/ obs_db_conn.fails = {"recent", "all"}
        \/ recent_tvks = {} /\ all_recorded_tvks = {}) =>
        results = UnrankedResults

\* The first n entries of a list (all of it when it is shorter).
Prefix(list, n) == SubSeq(list, 1, Min(n, Len(list)))

\* C23: the limit is applied after deduplication and ordering: for every
\* 0 <= k <= n, search(term, k) is the first k entries of search(term, n);
\* search(term, n) is the first n entries of the unlimited result, which
\* holds every matched scientific name exactly once.
C23_LimitAfterOrdering ==
    (op = "search" /\ ~raised) =>
        LET all == Search(search_term, -1)
        IN  /\ \A k \in 0..limit : Search(search_term, k) = Prefix(results, k)
            /\ results = Prefix(all, limit)
            /\ {all[i].scientific_name : i \in DOMAIN all} =
                   {taxa[k].scientific_name : k \in MatchedTvks(search_term)}
            /\ \A i, j \in DOMAIN all :
                   all[i].scientific_name = all[j].scientific_name => i = j

\* C23 witness: more names matched than the limit, several matched taxa
\* share a name, and the rows with the lowest keys are not the ones returned.
C23_Witness ==
    /\ op = "search" /\ ~raised
    /\ limit = 2 /\ Len(results) = 2
    /\ LET matched == MatchedTvks(search_term)
       IN  /\ Cardinality(matched) > Len(Search(search_term, -1))
           /\ Len(Search(search_term, -1)) > 2
           /\ \E k \in matched :
                  /\ \A i \in DOMAIN results : results[i].tvk # k
                  /\ \A i \in DOMAIN results : k < results[i].tvk

\* The positions of the common-name lookups among the statements executed.
CommonNameLookups == {i \in DOMAIN queries : queries[i].kind = "common_names"}

\* The common names stored for key k, in table order.
OwnNames(k) ==
    LET own == SelectSeq(common_names, LAMBDA r : r.tvk = k)
    IN  [j \in 1..Len(own) |-> own[j].common_name]

\* C24: one search call makes at most one common-name lookup (none when no
\* row came back), keyed by exactly the keys of the rows returned; the
\* common_names of every entry is the joined names of its own key (None when
\* it has none), never those of a taxon collapsed into it.
C24_SingleBulkLookup ==
    (op = "search" /\ ~raised) =>
        /\ Cardinality(CommonNameLookups) = IF results = <<>> THEN 0 ELSE 1
        /\ \A q \in CommonNameLookups :
               queries[q].keys = [i \in DOMAIN results |-> results[i].tvk]
        /\ \A i \in DOMAIN results :
               results[i].common_names =
                   IF OwnNames(results[i].tvk) = <<>> THEN Null
                   ELSE Join(OwnNames(results[i].tvk), <<",", " ">>)

\* C24 witness: the row returned has no common name while a taxon of the same
\* scientific name, collapsed into it, has two; another row returned carries
\* a name of its own, and one lookup was made.
C24_Witness ==
    /\ op = "search" /\ ~raised
    /\ Cardinality(CommonNameLookups) = 1
    /\ Len(results) >= 2
    /\ \E i \in DOMAIN results :
           /\ results[i].common_names = Null
           /\ \E k \in DOMAIN taxa :
                  /\ k # results[i].tvk
                  /\ taxa[k].scientific_name = results[i].scientific_name
                  /\ Len(OwnNames(k)) = 2
    /\ \E i \in DOMAIN results : results[i].common_names # Null

\* A step of rank_results: one of its two reads.
RankerStep ==
    \/ op = "idle" /\ op' = "rank_reading"
    \/ op = "rank_reading" /\ op' = "rank_results"

\* The list returned is a permutation of the list given, in non-decreasing
\* order of the tiers computed from the two sets as they were read, after
\* exactly two reads, the recent one first.
RankedFromSnapshots ==
    op = "rank_results" =>
        /\ queries = RankQueries
        /\ \A e \in RankEntries : Occurrences(results, e) = Occurrences(ranked_input, e)
        /\ \A i, j \in DOMAIN results : i < j => Tier(results[i]) <= Tier(results[j])

\* C25: the ranker reads the history exactly twice, recent before all-ever,
\* and writes nothing; whatever is inserted or deleted between the two reads,
\* it returns a permutation of its input with non-decreasing tiers computed
\* from the sets as read (a key of the recent set is Tier 1 even when the
\* all-ever set read later no longer holds it).
C25_TolerantOfWrites ==
    /\ []RankedFromSnapshots
    /\ [][RankerStep => records' = records]_vars

\* C25 witness: a record was deleted between the reads, so a key of the recent
\* set is missing from the all-ever set; its entry was moved to the front of
\* an entry the all-ever set holds.
C25_Witness ==
    /\ op = "rank_results"
    /\ \E k \in recent_tvks : k \notin all_recorded_tvks
    /\ Len(results) = 2
    /\ results[1] = ranked_input[2]
    /\ results[1].tvk \in recent_tvks \ all_recorded_tvks
    /\ results[2].tvk \in all_recorded_tvks
    /\ StrLess(results[2].scientific_name, results[1].scientific_name)

\* The taxon keys of a list of entries, in order.
KeysOf(list) == [i \in DOMAIN list |-> list[i].tvk]

\* C30: the refactored search_species and the search_species of
\* database/uksi_handler.py return the same sequence of taxon keys (and raise
\* for the same terms), for every dataset, term, limit and history.
C30_Claim ==
    op = "search_species" =>
        /\ raised = LegacyRaises(search_term)
        /\ ~raised =>
               KeysOf(results) = KeysOf(LegacySearchSpecies(search_term, limit, obs_db_conn))

=============================================================================
